---- MODULE Spec2Model ----
(***************************************************************************)
(* Model of the two notebooks of nvidia-gcp-samples:                       *)
(*   bigquery_dataproc_dask_xgboost.ipynb  (training pipeline)             *)
(*   triton_inference.ipynb                (serving pipeline)              *)
(* A notebook is a sequence of code cells run top to bottom by one kernel; *)
(* a cell that raises stops the run.  Column names are sequences of        *)
(* one-character strings so that strip() and lower() are computed.         *)
(***************************************************************************)
EXTENDS Integers, Sequences, FiniteSets, TLC

(***************************************************************************)
(* Characters and str.strip() / str.lower()                                *)
(***************************************************************************)
Lowers == <<"a","b","c","d","e","f","g","h","i","j","k","l","m",
            "n","o","p","q","r","s","t","u","v","w","x","y","z">>

Uppers == <<"A","B","C","D","E","F","G","H","I","J","K","L","M",
            "N","O","P","Q","R","S","T","U","V","W","X","Y","Z">>

\* characters str.strip() removes (the model uses blank and tab)
Whitespace == {" ", "\t"}

\* code-point order of the characters used, for sorting labels
CharOrder == <<"\t", " ">> \o Uppers \o <<"_">> \o Lowers

Range(s) == {s[i] : i \in DOMAIN s}

IndexOf(c, s) == CHOOSE i \in DOMAIN s : s[i] = c

LowerChar(c) == IF c \in Range(Uppers) THEN Lowers[IndexOf(c, Uppers)] ELSE c

UpperChar(c) == IF c \in Range(Lowers) THEN Uppers[IndexOf(c, Lowers)] ELSE c

\* str.lower()
Lower(s) == [i \in DOMAIN s |-> LowerChar(s[i])]

Upper(s) == [i \in DOMAIN s |-> UpperChar(s[i])]

RECURSIVE LStrip(_)
LStrip(s) == IF s # <<>> /\ Head(s) \in Whitespace THEN LStrip(Tail(s)) ELSE s

RECURSIVE RStrip(_)
RStrip(s) ==
    IF s # <<>> /\ s[Len(s)] \in Whitespace THEN RStrip(SubSeq(s, 1, Len(s) - 1)) ELSE s

\* str.strip()
Strip(s) == RStrip(LStrip(s))
\* the label stripped but not lowercased
StripOnly(col) == Strip(col)

\* col.strip().lower()
Normalize(col) == Lower(Strip(col))

\* s < t in Python's string order
RECURSIVE StrLess(_, _)
StrLess(s, t) ==
    IF t = <<>> THEN FALSE
    ELSE IF s = <<>> THEN TRUE
    ELSE IF Head(s) = Head(t) THEN StrLess(Tail(s), Tail(t))
    ELSE IndexOf(Head(s), CharOrder) < IndexOf(Head(t), CharOrder)

(***************************************************************************)
(* Column labels of the notebook                                           *)
(***************************************************************************)
pickup_datetime == <<"p","i","c","k","u","p","_","d","a","t","e","t","i","m","e">>

dropoff_datetime == <<"d","r","o","p","o","f","f","_","d","a","t","e","t","i","m","e">>

tpep_pickup_datetime == <<"t","p","e","p","_">> \o pickup_datetime

tpep_dropoff_datetime == <<"t","p","e","p","_">> \o dropoff_datetime

ratecodeid == <<"r","a","t","e","c","o","d","e","i","d">>

rate_code == <<"r","a","t","e","_","c","o","d","e">>

passenger_count == <<"p","a","s","s","e","n","g","e","r","_","c","o","u","n","t">>

trip_distance == <<"t","r","i","p","_","d","i","s","t","a","n","c","e">>

pickup_longitude == <<"p","i","c","k","u","p","_","l","o","n","g","i","t","u","d","e">>

pickup_latitude == <<"p","i","c","k","u","p","_","l","a","t","i","t","u","d","e">>

dropoff_longitude == <<"d","r","o","p","o","f","f","_","l","o","n","g","i","t","u","d","e">>

dropoff_latitude == <<"d","r","o","p","o","f","f","_","l","a","t","i","t","u","d","e">>

fare_amount == <<"f","a","r","e","_","a","m","o","u","n","t">>

\* columns of the table that the notebook does not name
VendorID == <<"V","e","n","d","o","r","I","D">>

store_and_fwd_flag ==
    <<"s","t","o","r","e","_","a","n","d","_","f","w","d","_","f","l","a","g">>

RateCodeID == <<"R","a","t","e","C","o","d","e","I","D">>

(***************************************************************************)
(* Values, dtypes and casts.  A cell value is a record [k, hi, v]:         *)
(*   k = "null"  a missing value                                           *)
(*   k = "num"   the number hi * 2^32 + v (of the column's dtype), v a     *)
(*               signed 32-bit word; hi is 0 or 1, and v >= 0 when hi = 1  *)
(*   k = "str"   a string holding the decimal text of that number          *)
(*   k = "bad"   a string that is no number                                *)
(***************************************************************************)
Null == [k |-> "null", hi |-> 0, v |-> 0]

Wide(h, n) == [k |-> "num", hi |-> h, v |-> n]

Num(n) == Wide(0, n)

Str(x) == [x EXCEPT !.k = "str"]

BadStr == [k |-> "bad", hi |-> 0, v |-> 0]

\* spacing of the float32 values around the magnitude a (24-bit significand)
RECURSIVE Ulp(_, _)
Ulp(a, step) == IF a \div step < 16777216 THEN step ELSE Ulp(a, 2 * step)

\* a rounded to the nearest multiple of step, ties to the even multiple
RoundTo(a, step) ==
    LET q == a \div step
        r == a % step
        up == (2 * r > step) \/ (2 * r = step /\ q % 2 = 1)
    IN (IF up THEN q + 1 ELSE q) * step

\* nearest float32 of a number: below 2^31 the spacing follows the
\* magnitude, in 2^32 .. 2^32 + 2^31 it is 2^9
Float32(x) ==
    IF x.hi = 0
    THEN Num(IF x.v < 0 THEN -RoundTo(-x.v, Ulp(-x.v, 1)) ELSE RoundTo(x.v, Ulp(x.v, 1)))
    ELSE Wide(x.hi, RoundTo(x.v, 512))

\* narrowing of a 64-bit integer to 32 bits: the low word is kept
Int32(x) == Num(x.v)

\* 'int' in str(dtype), 'float' in str(dtype)
HasInt(dtype) == dtype \in {"int64", "int32"}

HasFloat(dtype) == dtype \in {"float64", "float32"}

\* Series.astype(to) on one value of a column of dtype `from`
CastVal(x, from, to) ==
    IF x.k = "null" \/ x.k = "bad" THEN x
    ELSE IF to = "int32" THEN Int32(x)
    ELSE IF to = "float32" THEN Float32(x)
    ELSE [x EXCEPT !.k = "num"]

\* the cast raises when the column is computed: a string that is no number
CastRaises(col) == \E i \in DOMAIN col.data : col.data[i].k = "bad"

\* Series.astype(to)
AsType(col, to) ==
    [name |-> col.name, dtype |-> to,
     data |-> [i \in DOMAIN col.data |-> CastVal(col.data[i], col.dtype, to)]]

\* Series.fillna(value)
FillNa(col, value) ==
    [col EXCEPT !.data = [i \in DOMAIN col.data |->
        IF col.data[i].k = "null" THEN Num(value) ELSE col.data[i]]]

(***************************************************************************)
(* Data frames: [index, cols, fails].  index is the sequence of row ids,   *)
(* cols the sequence of columns [name, dtype, data] (data aligned with     *)
(* index), fails says that a task of the lazy graph raises when computed.  *)
(***************************************************************************)
Labels(df) == [i \in DOMAIN df.cols |-> df.cols[i].name]

HasCol(df, name) == \E i \in DOMAIN df.cols : df.cols[i].name = name

ColIdx(df, name) == CHOOSE i \in DOMAIN df.cols : df.cols[i].name = name

Col(df, name) == df.cols[ColIdx(df, name)]

RECURSIVE SeqFilter(_, _)
SeqFilter(s, keep) ==
    IF s = <<>> THEN <<>>
    ELSE IF Head(s) \in keep THEN <<Head(s)>> \o SeqFilter(Tail(s), keep)
    ELSE SeqFilter(Tail(s), keep)

\* DataFrame.rename(columns=mapping): one pass, labels that are no key stay
Rename(df, mapping) ==
    [df EXCEPT !.cols = [i \in DOMAIN df.cols |->
        [df.cols[i] EXCEPT !.name =
            IF df.cols[i].name \in DOMAIN mapping
            THEN mapping[df.cols[i].name] ELSE df.cols[i].name]]]
\* the result of drop not assigned back to df_part
DropNothing(df, name) == df

\* DataFrame.drop(name, axis=1)
Drop(df, name) ==
    [df EXCEPT !.cols = SeqFilter(df.cols, {c \in Range(df.cols) : c.name # name})]

\* df[name] = series
SetCol(df, name, col) == [df EXCEPT !.cols[ColIdx(df, name)] = col]

\* the rows (positions in index) of a frame kept by `keep`
TakeRows(df, keep) ==
    LET pos == SeqFilter([i \in DOMAIN df.index |-> i], keep)
    IN [df EXCEPT !.index = [j \in DOMAIN pos |-> df.index[pos[j]]],
                  !.cols = [c \in DOMAIN df.cols |->
                      [df.cols[c] EXCEPT !.data =
                          [j \in DOMAIN pos |-> df.cols[c].data[pos[j]]]]]]

\* sorted(labels), duplicates removed
RECURSIVE SortLabels(_)
SortLabels(S) ==
    IF S = {} THEN <<>>
    ELSE LET m == CHOOSE x \in S : \A y \in S \ {x} : StrLess(x, y)
         IN <<m>> \o SortLabels(S \ {m})
\* the columns sorted, the response among them
DifferenceOfNone(labels, other) == SortLabels(Range(labels))

\* Index.difference(other): the labels not in other, sorted
Difference(labels, other) == SortLabels(Range(labels) \ Range(other))

\* df[names]: the named columns, in the order of names
Select(df, names) == [df EXCEPT !.cols = [i \in DOMAIN names |-> Col(df, names[i])]]

\* df[names] raises KeyError
SelectRaises(df, names) == \E i \in DOMAIN names : ~HasCol(df, names[i])

(***************************************************************************)
(* Cell becoming-pathology: remap, must_haves, query_frags                 *)
(***************************************************************************)
remap ==
    (tpep_pickup_datetime :> pickup_datetime) @@
    (tpep_dropoff_datetime :> dropoff_datetime) @@
    (ratecodeid :> rate_code)

must_haves ==
    (pickup_datetime :> "datetime64[ms]") @@
    (dropoff_datetime :> "datetime64[ms]") @@
    (passenger_count :> "int32") @@
    (trip_distance :> "float32") @@
    (pickup_longitude :> "float32") @@
    (pickup_latitude :> "float32") @@
    (rate_code :> "int32") @@
    (dropoff_longitude :> "float32") @@
    (dropoff_latitude :> "float32") @@
    (fare_amount :> "float32")

\* '<col> > lo and <col> < hi'
Frag(col, lo, hi) == [col |-> col, lo |-> lo, hi |-> hi]

query_frags == <<
    Frag(fare_amount, 0, 500),
    Frag(passenger_count, 0, 6),
    Frag(pickup_longitude, -75, -73),
    Frag(dropoff_longitude, -75, -73),
    Frag(pickup_latitude, 40, 42),
    Frag(dropoff_latitude, 40, 42) >>

(***************************************************************************)
(* Cell realistic-calculation: response_id, fields                         *)
(***************************************************************************)
response_id == fare_amount

fields == << passenger_count, trip_distance, pickup_longitude, pickup_latitude,
             rate_code, dropoff_longitude, dropoff_latitude, fare_amount >>

(***************************************************************************)
(* Cell quiet-postcard: clean(df_part, remap, must_haves)                  *)
(***************************************************************************)
\* the numeric branch of the loop body: downcast 64 bit to 32 bit, fill nulls
Downcast(c) ==
    LET c1 == IF HasInt(c.dtype) THEN AsType(c, "int32") ELSE c
        c2 == IF HasFloat(c1.dtype) THEN AsType(c1, "float32") ELSE c1
    IN FillNa(c2, -1)

\* one iteration of `for col in df_part.columns`
CleanCol(df, col, expected) ==
    IF col \notin DOMAIN expected THEN Drop(df, col)
    ELSE LET c == Col(df, col) IN
         IF c.dtype = "object" /\ col \in {pickup_datetime, dropoff_datetime}
         THEN [SetCol(df, col, AsType(c, "datetime64[ms]"))
                  EXCEPT !.fails = df.fails \/ CastRaises(c)]
         ELSE IF c.dtype = "object"
         THEN [SetCol(df, col, AsType(c, "float32"))
                  EXCEPT !.fails = df.fails \/ CastRaises(c)]
         ELSE SetCol(df, col, Downcast(c))
\* the loop walking the columns of the frame it drops from: after a drop
\* the next column takes the place of the dropped one and is passed over
RemainingOfLive(labels, before, after) ==
    IF Len(after.cols) < Len(before.cols) /\ Len(labels) > 1
    THEN Tail(Tail(labels))
    ELSE Tail(labels)

\* the labels the iterator of `for col in df_part.columns` still has to
\* give after a run of the body: the Index was taken from the renamed frame
\* when the loop began, and the body rebinds df_part to a new frame
Remaining(labels, before, after) == Tail(labels)

\* the loop; run.df is df_part and run.seen the labels the body has run for
RECURSIVE CleanLoop(_, _, _)
CleanLoop(run, labels, expected) ==
    IF labels = <<>> THEN run
    ELSE LET after == CleanCol(run.df, Head(labels), expected)
         IN CleanLoop([df |-> after, seen |-> Append(run.seen, Head(labels))],
                      Remaining(labels, run.df, after), expected)

\* tmp = {col: col.strip().lower() for col in list(df_part.columns)}
StripLower(df) == [col \in Range(Labels(df)) |-> Normalize(col)]

\* the two renames at the head of clean
Renamed(df_part, mapping) == Rename(Rename(df_part, StripLower(df_part)), mapping)

\* clean from its first line to its return
CleanRun(df_part, mapping, expected) ==
    LET df == Renamed(df_part, mapping)
    IN CleanLoop([df |-> df, seen |-> <<>>], Labels(df), expected)

clean(df_part, mapping, expected) == CleanRun(df_part, mapping, expected).df

(***************************************************************************)
(* DataFrame.query(' and '.join(query_frags))                              *)
(***************************************************************************)
\* the comparisons of the query written with <= and >=
FragHoldsInclusive(x, f) == x.k = "num" /\ x.hi = 0 /\ x.v >= f.lo /\ x.v <= f.hi

\* a comparison with a missing value is false
FragHolds(x, f) == x.k = "num" /\ x.hi = 0 /\ x.v > f.lo /\ x.v < f.hi

KeepRow(df, i, frags) ==
    \A n \in DOMAIN frags : FragHolds(Col(df, frags[n].col).data[i], frags[n])

\* a fragment names a column the frame does not have
QueryRaises(df, frags) == \E n \in DOMAIN frags : ~HasCol(df, frags[n].col)

Query(df, frags) == TakeRows(df, {i \in DOMAIN df.index : KeepRow(df, i, frags)})

(***************************************************************************)
(* The BigQuery table read by dask_bigquery.read_gbq: the taxi schema with *)
(* NGood rows inside every range and one more row, and one column of the   *)
(* table varied in its label (padding, case), its dtype and the value it   *)
(* has in the last row.                                                    *)
(***************************************************************************)
NGood == 4

\* a number that no 32-bit integer and no float32 holds: 2^32 + 3
WideNumber == Wide(1, 3)

TableSchema == <<
    [name |-> VendorID,              dtype |-> "int64"],
    [name |-> tpep_pickup_datetime,  dtype |-> "datetime64[ns]"],
    [name |-> tpep_dropoff_datetime, dtype |-> "datetime64[ns]"],
    [name |-> passenger_count,       dtype |-> "int64"],
    [name |-> trip_distance,         dtype |-> "float64"],
    [name |-> pickup_longitude,      dtype |-> "float64"],
    [name |-> pickup_latitude,       dtype |-> "float64"],
    [name |-> RateCodeID,            dtype |-> "int64"],
    [name |-> store_and_fwd_flag,    dtype |-> "object"],
    [name |-> dropoff_longitude,     dtype |-> "float64"],
    [name |-> dropoff_latitude,      dtype |-> "float64"],
    [name |-> fare_amount,           dtype |-> "float64"] >>

IsDatetime(name) == name \in {tpep_pickup_datetime, tpep_dropoff_datetime}

\* the dtypes a column of the table may be read with
InputDtypes(name) ==
    IF IsDatetime(name) THEN {"object", "datetime64[ns]"}
    ELSE {"object", "int64", "float64"}

\* the value of row i of a column in a row that is inside every range
GoodNumber(name, i) ==
    IF name = fare_amount THEN 10 * i
    ELSE IF name = passenger_count THEN ((i - 1) % 5) + 1
    ELSE IF name \in {pickup_longitude, dropoff_longitude} THEN -74
    ELSE IF name \in {pickup_latitude, dropoff_latitude} THEN 41
    ELSE IF IsDatetime(name) THEN 1000 * i
    ELSE i

\* the numbers tried in the last row: the bounds of the column's range and
\* the values next to them
ProbeNumbers(name) ==
    LET fs == {n \in DOMAIN query_frags : query_frags[n].col = Normalize(name)}
    IN UNION {{query_frags[n].lo, query_frags[n].lo + 1,
               query_frags[n].hi - 1, query_frags[n].hi} : n \in fs}
       \cup {GoodNumber(name, NGood + 1)}

Cased(name, case) ==
    IF case = "upper" THEN Upper(name)
    ELSE IF case = "lower" THEN Lower(name)
    ELSE name

Styled(name, st) == st.lpad \o Cased(name, st.case) \o st.rpad

Style(lpad, case, rpad) == [lpad |-> lpad, case |-> case, rpad |-> rpad]

PlainStyle == Style(<<>>, "asis", <<>>)

OddStyle == Style(<<"\t">>, "upper", <<" ", " ">>)

\* the ways the label of a column is written
Styles == {PlainStyle, OddStyle, Style(<<>>, "upper", <<>>),
           Style(<<" ">>, "lower", <<>>), Style(<<>>, "asis", <<"\t">>)}

\* how a value is stored in a column of the dtype
Stored(x, dtype) == IF dtype = "object" /\ x.k = "num" THEN Str(x) ELSE x

\* the values the last row may have in a column of the dtype
Probes(name, dtype) ==
    {Num(n) : n \in ProbeNumbers(name)} \cup {WideNumber}
    \cup (IF dtype = "datetime64[ns]" THEN {} ELSE {Null})
    \cup (IF dtype = "object" THEN {BadStr} ELSE {})

GoodProbe(f) == Num(GoodNumber(TableSchema[f].name, NGood + 1))

Input(f, present, style, dtype, probe) ==
    [f |-> f, present |-> present, style |-> style, dtype |-> dtype, probe |-> probe]

\* the label clean gives a column of the table
CleanLabel(name) ==
    IF Normalize(name) \in DOMAIN remap THEN remap[Normalize(name)] ELSE Normalize(name)

\* the columns the pipeline keeps
FieldColumns == {f \in DOMAIN TableSchema : CleanLabel(TableSchema[f].name) \in Range(fields)}

\* one column written in each style
LabelVariants ==
    {Input(f, TRUE, st, TableSchema[f].dtype, GoodProbe(f)) :
        f \in DOMAIN TableSchema, st \in Styles}

\* one column left out of the table
ColumnVariants ==
    {Input(f, FALSE, PlainStyle, TableSchema[f].dtype, GoodProbe(f)) :
        f \in DOMAIN TableSchema}

\* one column read with each dtype
DtypeVariants ==
    UNION {{Input(f, TRUE, st, d, GoodProbe(f)) :
                st \in {PlainStyle, OddStyle}, d \in InputDtypes(TableSchema[f].name)} :
           f \in DOMAIN TableSchema}

\* one column the pipeline keeps, with each dtype and each last value
ValueVariants ==
    UNION {UNION {{Input(f, TRUE, PlainStyle, d, x) : x \in Probes(TableSchema[f].name, d)} :
                  d \in InputDtypes(TableSchema[f].name)} :
           f \in FieldColumns}

\* the tables read
Inputs == LabelVariants \cup ColumnVariants \cup DtypeVariants \cup ValueVariants

TableColumn(c, inp) ==
    LET base == TableSchema[c]
        dt == IF c = inp.f THEN inp.dtype ELSE base.dtype
        good(i) == IF base.name = store_and_fwd_flag /\ dt = "object"
                   THEN BadStr ELSE Num(GoodNumber(base.name, i))
    IN [name |-> IF c = inp.f THEN Styled(base.name, inp.style) ELSE base.name,
        dtype |-> dt,
        data |-> [i \in 1..(NGood + 1) |->
            Stored(IF c = inp.f /\ i = NGood + 1 THEN inp.probe ELSE good(i), dt)]]

Table(inp) ==
    LET all == [c \in DOMAIN TableSchema |-> TableColumn(c, inp)]
    IN [index |-> [i \in 1..(NGood + 1) |-> i],
        cols |-> IF inp.present THEN all
                 ELSE SeqFilter(all, {all[c] : c \in DOMAIN all \ {inp.f}}),
        fails |-> FALSE]

(***************************************************************************)
(* The kernel.  A notebook is its code cells in order; a cell names the    *)
(* globals it reads from earlier cells (uses) and those it binds (defs).   *)
(***************************************************************************)
VARIABLES
    notebook,       \* "train" or "serve": the notebook the kernel runs
    pc,             \* index of the next cell
    line,           \* "top", or the blocking call the current cell waits in
    raised,         \* "none", or the exception that stopped the run
    bound,          \* the global names bound so far
    started,        \* the cells entered, in order
    finished,       \* the cells that returned, in order
    requested,      \* workers asked for by cluster.scale
    joined,         \* workers that have connected to the scheduler
    client,         \* the Client is connected
    workers,        \* client.has_what().keys() as read by the notebook
    ddf,            \* the table as a dask dataframe
    taxi_df,        \* the frame being cleaned
    renamed,        \* the labels of df_part after the two renames of clean
    examined,       \* the labels the loop of clean ran its body for, in order
    cleaned,        \* the frame clean returned
    npartitions,    \* partitions of taxi_df
    persisted,      \* "no", "pending", "memory", "erred": the futures of taxi_df
    restricted,     \* the workers the persisted tasks are annotated with
    X, y,
    X_train, X_test, y_train, y_test,
    dmatrix_train, dmatrix_test,
    xgb_clasf,      \* the result of xgb.dask.train
    y_predict,
    t, y_t, y_p,
    sdk,            \* what vertex_ai.init was given
    ops,            \* the service's operations: "idle", "running", "done", "failed"
    model,          \* the Model resource returned by Model.upload
    endpoint,       \* the Endpoint resource returned by Endpoint.create
    registry,       \* the models registered in the project
    endpoints,      \* the endpoints of the project and what each serves
    files,          \* the files written by the kernel
    uri,            \* the address of the rawPredict request
    response,       \* what curl printed
    calls           \* the requests sent and the completions seen, in order

ctrl == <<notebook, pc, line, raised, bound, started, finished>>

yarn == <<requested, joined, client, workers>>

frames == <<ddf, taxi_df, renamed, examined, cleaned, npartitions, persisted, restricted, X, y>>

split == <<X_train, X_test, y_train, y_test>>

learn == <<dmatrix_train, dmatrix_test, xgb_clasf, y_predict, t, y_t, y_p>>

trainVars == <<yarn, frames, split, learn>>

serve == <<sdk, ops, model, endpoint, registry, endpoints, files, uri, response, calls>>

Cell(id, step, uses, defs) == [id |-> id, step |-> step, uses |-> uses, defs |-> defs]

\* the code cells of bigquery_dataproc_dask_xgboost.ipynb
TrainCells == <<
    Cell("hollow-platform", "none", {},
         {"cp", "np", "dask", "dask_cudf", "dask_ml", "dask_bigquery", "wait"}),
    Cell("competent-manner", "acquire", {}, {"Client", "YarnCluster", "cluster"}),
    Cell("south-yukon", "acquire", {"Client", "cluster"}, {"client"}),
    Cell("appreciated-dubai", "acquire", {"client"}, {}),
    Cell("legitimate-switch", "load", {"client", "dask_bigquery"},
         {"workers", "n_workers", "ddf"}),
    Cell("quiet-postcard", "none", {}, {"clean"}),
    Cell("becoming-pathology", "none", {}, {"remap", "must_haves", "query_frags"}),
    Cell("realistic-calculation", "none", {}, {"response_id", "fields"}),
    Cell("pending-harvey", "load", {"dask_cudf", "ddf", "workers"}, {"taxi_df"}),
    Cell("molecular-honolulu", "clean",
         {"clean", "taxi_df", "remap", "must_haves", "query_frags", "fields"}, {}),
    Cell("wrong-harmony", "clean",
         {"np", "dask", "workers", "client", "taxi_df", "wait", "response_id"},
         {"response_dtype", "X", "y"}),
    Cell("tender-traveler", "split", {"X", "y"},
         {"train_test_split", "X_train", "X_test", "y_train", "y_test"}),
    Cell("reported-rescue", "split", {"X", "y"},
         {"X_train", "X_test", "y_train", "y_test"}),
    Cell("pleased-greensboro", "train",
         {"client", "X_train", "y_train", "X_test", "y_test"},
         {"xgb", "dmatrix_train", "dmatrix_test", "params"}),
    Cell("gorgeous-nightlife", "train",
         {"xgb", "client", "params", "dmatrix_train", "dmatrix_test"},
         {"xgb_clasf", "model_xgb"}),
    Cell("chinese-forward", "predict",
         {"model_xgb", "xgb", "client", "xgb_clasf", "dmatrix_test"}, {"y_predict"}),
    Cell("7fb50645", "none", {"y_predict", "y_test"}, {}),
    Cell("08389fd3", "evaluate", {"cp", "y_predict"}, {"y"}),
    Cell("d24f1149", "evaluate", {"y_test"}, {"t"}),
    Cell("elementary-vintage", "evaluate", {"t", "y", "cuml"}, {"dask", "y_t", "y_p"}),
    Cell("sized-outreach", "evaluate", {"cuml", "y_t", "y_p"}, {}) >>

\* the code cells of triton_inference.ipynb
ServeCells == <<
    Cell("9791d621", "none", {}, {"vertex_ai"}),
    Cell("3e20da19", "none", {}, {"PROJECT_ID", "REGION", "STAGING_BUCKET"}),
    Cell("97b732f8", "none", {"STAGING_BUCKET"}, {"MODEL_ARTIFACTS_REPOSITORY"}),
    Cell("37d994ba", "none", {"PROJECT_ID"},
         {"MODEL_NAME", "MODEL_VERSION", "MODEL_DISPLAY_NAME",
          "ENDPOINT_DISPLAY_NAME", "IMAGE_NAME", "IMAGE_URI"}),
    Cell("c2e0cca3", "none", {"vertex_ai", "PROJECT_ID", "REGION", "STAGING_BUCKET"}, {}),
    Cell("b9e3c2ac", "register",
         {"vertex_ai", "MODEL_DISPLAY_NAME", "IMAGE_URI", "MODEL_ARTIFACTS_REPOSITORY"},
         {"serving_container_args", "model"}),
    Cell("d2ef58a0", "endpoint", {"vertex_ai", "ENDPOINT_DISPLAY_NAME"}, {"endpoint"}),
    Cell("cf2bb85f", "deploy", {"model", "endpoint", "MODEL_DISPLAY_NAME"},
         {"traffic_percentage", "machine_type", "accelerator_type",
          "accelerator_count", "min_replica_count", "max_replica_count"}),
    Cell("924669cf", "invoke", {}, {"json", "payload"}),
    Cell("6f98d37f", "invoke", {"REGION", "PROJECT_ID", "endpoint"}, {"uri"}),
    Cell("aa7f1b55", "none", {}, {}) >>
\* the cells with the load cell legitimate-switch moved above the client cell
TrainOrderLoadFirst == <<
    "hollow-platform", "competent-manner", "legitimate-switch", "south-yukon",
    "appreciated-dubai", "quiet-postcard", "becoming-pathology",
    "realistic-calculation", "pending-harvey", "molecular-honolulu",
    "wrong-harmony", "tender-traveler", "reported-rescue", "pleased-greensboro",
    "gorgeous-nightlife", "chinese-forward", "7fb50645", "08389fd3", "d24f1149",
    "elementary-vintage", "sized-outreach" >>

\* the order of the cells in bigquery_dataproc_dask_xgboost.ipynb
TrainOrder == <<
    "hollow-platform", "competent-manner", "south-yukon", "appreciated-dubai",
    "legitimate-switch", "quiet-postcard", "becoming-pathology",
    "realistic-calculation", "pending-harvey", "molecular-honolulu",
    "wrong-harmony", "tender-traveler", "reported-rescue", "pleased-greensboro",
    "gorgeous-nightlife", "chinese-forward", "7fb50645", "08389fd3", "d24f1149",
    "elementary-vintage", "sized-outreach" >>

\* the order of the cells in triton_inference.ipynb
ServeOrder == <<
    "9791d621", "3e20da19", "97b732f8", "37d994ba", "c2e0cca3", "b9e3c2ac",
    "d2ef58a0", "cf2bb85f", "924669cf", "6f98d37f", "aa7f1b55" >>

CellOf(table, id) == table[CHOOSE i \in DOMAIN table : table[i].id = id]

\* the cells of each notebook in the order Run All executes them
TrainRun == [i \in DOMAIN TrainOrder |-> CellOf(TrainCells, TrainOrder[i])]

ServeRun == [i \in DOMAIN ServeOrder |-> CellOf(ServeCells, ServeOrder[i])]

\* Run All: the cells of the open notebook, top to bottom
Cells == IF notebook = "train" THEN TrainRun ELSE ServeRun

NextCell(i) == i + 1

\* nothing printed by curl
NoBody == [id |-> "", model_name |-> "", model_version |-> "", outputs |-> <<>>]
\* a kernel that runs the cell whether or not it has raised
AtDespiteError(id) ==
    /\ line = "top"
    /\ pc \in DOMAIN Cells
    /\ Cells[pc].id = id

\* the kernel is about to run the cell
At(id) ==
    /\ raised = "none"
    /\ line = "top"
    /\ pc \in DOMAIN Cells
    /\ Cells[pc].id = id

NamesBound == Cells[pc].uses \subseteq bound

\* the cell returns
Return(id) ==
    /\ pc' = NextCell(pc)
    /\ line' = "top"
    /\ raised' = "none"
    /\ bound' = bound \cup Cells[pc].defs
    /\ started' = IF line = "top" THEN Append(started, id) ELSE started
    /\ finished' = Append(finished, id)
    /\ UNCHANGED notebook

\* the cell raises exc; the globals in `names` were bound before it did
Raise(id, exc, names) ==
    /\ raised' = exc
    /\ bound' = bound \cup names
    /\ started' = IF line = "top" THEN Append(started, id) ELSE started
    /\ UNCHANGED <<notebook, pc, line, finished>>

\* the cell blocks in a call
Block(id, call) ==
    /\ line' = call
    /\ started' = Append(started, id)
    /\ UNCHANGED <<notebook, pc, raised, bound, finished>>

\* a cell that reads a name no earlier cell has bound raises NameError
NameError(id) == Raise(id, "NameError", {})

\* a cell that only binds names or prints
Plain(id) ==
    /\ At(id)
    /\ IF NamesBound THEN Return(id) ELSE NameError(id)
    /\ UNCHANGED <<serve, trainVars, serve>>

NoFrame == [index |-> <<>>, cols |-> <<>>, fails |-> FALSE]

NoMatrix == [data |-> NoFrame, label |-> NoFrame]

NoModel == [rows |-> {}, features |-> <<>>, label |-> <<>>, evals |-> <<>>]

NoPrediction == [index |-> <<>>, by |-> NoModel]

NoSdk == [project |-> "", location |-> "", staging_bucket |-> ""]

NoUri == [host |-> "", project |-> "", location |-> "", endpoint |-> "", verb |-> ""]

Init ==
    /\ notebook \in {"train", "serve"}
    /\ pc = 1
    /\ line = "top"
    /\ raised = "none"
    /\ bound = {}
    /\ started = <<>>
    /\ finished = <<>>
    /\ requested = 0
    /\ joined = 0
    /\ client = FALSE
    /\ workers = {}
    /\ ddf = NoFrame
    /\ taxi_df = NoFrame
    /\ renamed = <<>>
    /\ examined = <<>>
    /\ cleaned = NoFrame
    /\ npartitions = 0
    /\ persisted = "no"
    /\ restricted = {}
    /\ X = NoFrame
    /\ y = NoFrame
    /\ X_train = NoFrame
    /\ X_test = NoFrame
    /\ y_train = NoFrame
    /\ y_test = NoFrame
    /\ dmatrix_train = NoMatrix
    /\ dmatrix_test = NoMatrix
    /\ xgb_clasf = NoModel
    /\ y_predict = NoPrediction
    /\ t = NoFrame
    /\ y_t = NoFrame
    /\ y_p = NoFrame
    /\ sdk = NoSdk
    /\ ops = [upload |-> "idle", create |-> "idle", deploy |-> "idle"]
    /\ model = ""
    /\ endpoint = ""
    /\ registry = {}
    /\ endpoints = {}
    /\ files = {}
    /\ uri = NoUri
    /\ response = [status |-> "", body |-> NoBody]
    /\ calls = <<>>

(***************************************************************************)
(* The cells of the training notebook                                      *)
(***************************************************************************)
\* cluster.scale(4)
YarnWorkers == 4

\* train_size=0.80, in tenths
TrainTenths == 8

\* the cells that import, define or print and call nothing that can fail
PlainCells == {"hollow-platform", "appreciated-dubai", "quiet-postcard",
               "becoming-pathology", "realistic-calculation", "7fb50645",
               "sized-outreach",
               "9791d621", "3e20da19", "97b732f8", "37d994ba", "aa7f1b55"}

RunPlain == \E id \in PlainCells : Plain(id)

\* competent-manner: cluster = YarnCluster(...); cluster.scale(4)
StartCluster ==
    /\ At("competent-manner")
    /\ IF NamesBound
       THEN requested' = YarnWorkers /\ Return("competent-manner")
       ELSE NameError("competent-manner") /\ UNCHANGED requested
    /\ UNCHANGED <<serve, joined, client, workers, frames, split, learn>>

\* a container of the YARN application starts and its worker connects
WorkerJoins ==
    /\ joined < requested
    /\ joined' = joined + 1
    /\ UNCHANGED <<serve, ctrl, requested, client, workers, frames, split, learn>>

\* south-yukon: client = Client(cluster)
ConnectClient ==
    /\ At("south-yukon")
    /\ IF NamesBound
       THEN client' = TRUE /\ Return("south-yukon")
       ELSE NameError("south-yukon") /\ UNCHANGED client
    /\ UNCHANGED <<serve, requested, joined, workers, frames, split, learn>>

\* legitimate-switch: workers = client.has_what().keys(); ddf = read_gbq(...)
LoadTable ==
    /\ At("legitimate-switch")
    /\ IF NamesBound
       THEN /\ workers' = 1..joined
            /\ \E inp \in Inputs : ddf' = Table(inp)
            /\ Block("legitimate-switch", "head")
       ELSE NameError("legitimate-switch") /\ UNCHANGED <<workers, ddf>>
    /\ UNCHANGED <<serve, requested, joined, client, taxi_df, renamed, examined, cleaned,
                   npartitions, persisted,
                   restricted, X, y, split, learn>>

\* legitimate-switch: ddf.head() returns once a worker has computed the
\* first partition
HeadReturns ==
    /\ raised = "none"
    /\ line = "head"
    /\ joined >= 1
    /\ Return("legitimate-switch")
    /\ UNCHANGED <<serve, trainVars, serve>>

\* pending-harvey: from_dask_dataframe, repartition(npartitions=len(workers))
Repartition ==
    /\ At("pending-harvey")
    /\ IF ~NamesBound
       THEN NameError("pending-harvey") /\ UNCHANGED <<taxi_df, npartitions>>
       ELSE /\ taxi_df' = ddf
            /\ IF Cardinality(workers) = 0
               THEN /\ Raise("pending-harvey", "ZeroDivisionError", {"taxi_df"})
                    /\ UNCHANGED npartitions
               ELSE /\ npartitions' = Cardinality(workers)
                    /\ Return("pending-harvey")
    /\ UNCHANGED <<serve, yarn, ddf, renamed, examined, cleaned, persisted, restricted, X, y,
                   split, learn>>

\* molecular-honolulu: clean, query, taxi_df[fields]
CleanedFrame(df) == clean(df, remap, must_haves)

FilteredFrame(df) == Query(df, query_frags)

CleanFilter ==
    /\ At("molecular-honolulu")
    /\ IF ~NamesBound
       THEN NameError("molecular-honolulu") /\ UNCHANGED <<taxi_df, renamed, examined, cleaned>>
       ELSE LET c == CleanedFrame(taxi_df) IN
            /\ renamed' = Labels(Renamed(taxi_df, remap))
            /\ examined' = CleanRun(taxi_df, remap, must_haves).seen
            /\ cleaned' = c
            /\ IF QueryRaises(c, query_frags)
               THEN /\ taxi_df' = c
                    /\ Raise("molecular-honolulu", "UndefinedVariableError", {})
               ELSE LET q == FilteredFrame(c) IN
                    IF SelectRaises(q, fields)
                    THEN /\ taxi_df' = q
                         /\ Raise("molecular-honolulu", "KeyError", {})
                    ELSE /\ taxi_df' = Select(q, fields)
                         /\ Return("molecular-honolulu")
    /\ UNCHANGED <<serve, yarn, ddf, npartitions, persisted, restricted, X, y, split, learn>>

\* wrong-harmony: with dask.annotate(workers=set(workers)): client.persist(...)
Persist ==
    /\ At("wrong-harmony")
    /\ IF NamesBound
       THEN /\ restricted' = workers
            /\ persisted' = "pending"
            /\ Block("wrong-harmony", "wait")
       ELSE NameError("wrong-harmony") /\ UNCHANGED <<restricted, persisted>>
    /\ UNCHANGED <<serve, yarn, ddf, taxi_df, renamed, examined, cleaned, npartitions, X, y,
                   split, learn>>

\* the scheduler runs the persisted graph on the workers it is annotated with
Compute ==
    /\ persisted = "pending"
    /\ restricted \cap (1..joined) # {}
    /\ persisted' = IF taxi_df.fails THEN "erred" ELSE "memory"
    /\ UNCHANGED <<serve, ctrl, yarn, ddf, taxi_df, renamed, examined, cleaned, npartitions,
                   restricted, X, y,
                   split, learn>>

\* DataFrame.astype(np.float32)
FrameAsType(df, to) == [df EXCEPT !.cols = [c \in DOMAIN df.cols |-> AsType(df.cols[c], to)]]

\* X = taxi_df[taxi_df.columns.difference([response_id])].astype(np.float32)
Features(df) ==
    FrameAsType(Select(df, Difference(Labels(df), <<response_id>>)), "float32")

\* y = taxi_df[response_id].astype(response_dtype)
Response(df) == FrameAsType(Select(df, <<response_id>>), "float32")

\* wrong-harmony: wait(taxi_df) returns when every future is finished or
\* erred; then X and y are derived
WaitReturns ==
    /\ raised = "none"
    /\ line = "wait"
    /\ persisted \in {"memory", "erred"}
    /\ X' = Features(taxi_df)
    /\ y' = Response(taxi_df)
    /\ Return("wrong-harmony")
    /\ UNCHANGED <<serve, yarn, ddf, taxi_df, renamed, examined, cleaned, npartitions, persisted,
                   restricted, split, learn>>

\* the row positions train_test_split may put in the training part
SplitChoices(n) == {S \in SUBSET (1..n) : Cardinality(S) = (TrainTenths * n) \div 10}

\* tender-traveler: train_test_split(X, y, train_size=0.80, shuffle=True)
Split ==
    /\ At("tender-traveler")
    /\ IF NamesBound
       THEN /\ \E S \in SplitChoices(Len(X.index)) :
                 /\ X_train' = TakeRows(X, S)
                 /\ X_test' = TakeRows(X, DOMAIN X.index \ S)
                 /\ y_train' = TakeRows(y, S)
                 /\ y_test' = TakeRows(y, DOMAIN y.index \ S)
            /\ Return("tender-traveler")
       ELSE NameError("tender-traveler") /\ UNCHANGED split
    /\ UNCHANGED <<serve, yarn, frames, learn>>

\* reported-rescue: X_train = X.persist() ... y_test = y.persist()
PersistSplits ==
    /\ At("reported-rescue")
    /\ IF NamesBound
       THEN /\ X_train' = X
            /\ X_test' = X
            /\ y_train' = y
            /\ y_test' = y
            /\ Return("reported-rescue")
       ELSE NameError("reported-rescue") /\ UNCHANGED split
    /\ UNCHANGED <<serve, yarn, frames, learn>>

\* xgb.dask.DaskDMatrix(client, data, label)
DaskDMatrix(data, label) == [data |-> data, label |-> label]

\* pleased-greensboro: the DaskDMatrix constructor waits for the partitions
\* and asserts that each has finished
BuildMatrices ==
    /\ At("pleased-greensboro")
    /\ IF ~NamesBound
       THEN NameError("pleased-greensboro") /\ UNCHANGED <<dmatrix_train, dmatrix_test>>
       ELSE IF persisted = "erred"
       THEN /\ Raise("pleased-greensboro", "AssertionError", {"xgb"})
            /\ UNCHANGED <<dmatrix_train, dmatrix_test>>
       ELSE /\ dmatrix_train' = DaskDMatrix(X_train, y_train)
            /\ dmatrix_test' = DaskDMatrix(X_test, y_test)
            /\ Return("pleased-greensboro")
    /\ UNCHANGED <<serve, yarn, frames, split, xgb_clasf, y_predict, t, y_t, y_p>>

\* xgb.dask.train(client, params, dtrain, evals=[(dtrain,'train'),(dtest,'test')])
Booster(dtrain, dtest) ==
    [rows |-> Range(dtrain.data.index),
     features |-> Labels(dtrain.data),
     label |-> Labels(dtrain.label),
     evals |-> <<Range(dtrain.data.index), Range(dtest.data.index)>>]

\* gorgeous-nightlife
Train ==
    /\ At("gorgeous-nightlife")
    /\ IF NamesBound
       THEN /\ xgb_clasf' = Booster(dmatrix_train, dmatrix_test)
            /\ Return("gorgeous-nightlife")
       ELSE NameError("gorgeous-nightlife") /\ UNCHANGED xgb_clasf
    /\ UNCHANGED <<serve, yarn, frames, split, dmatrix_train, dmatrix_test, y_predict,
                   t, y_t, y_p>>

\* chinese-forward: xgb.dask.predict(client, booster, dmatrix_test)
Predict ==
    /\ At("chinese-forward")
    /\ IF NamesBound
       THEN /\ y_predict' = [index |-> dmatrix_test.data.index, by |-> xgb_clasf]
            /\ Return("chinese-forward")
       ELSE NameError("chinese-forward") /\ UNCHANGED y_predict
    /\ UNCHANGED <<serve, yarn, frames, split, dmatrix_train, dmatrix_test, xgb_clasf,
                   t, y_t, y_p>>

\* 08389fd3: y = cp.asarray(y_predict)
PredictionArray ==
    /\ At("08389fd3")
    /\ IF NamesBound
       THEN /\ y' = [index |-> y_predict.index, cols |-> <<>>, fails |-> FALSE]
            /\ Return("08389fd3")
       ELSE NameError("08389fd3") /\ UNCHANGED y
    /\ UNCHANGED <<serve, yarn, ddf, taxi_df, renamed, examined, cleaned, npartitions, persisted,
                   restricted, X,
                   split, learn>>

\* d24f1149: t = y_test.to_dask_array().compute()
TestLabels ==
    /\ At("d24f1149")
    /\ IF NamesBound
       THEN t' = y_test /\ Return("d24f1149")
       ELSE NameError("d24f1149") /\ UNCHANGED t
    /\ UNCHANGED <<serve, yarn, frames, split, dmatrix_train, dmatrix_test, xgb_clasf,
                   y_predict, y_t, y_p>>

\* elementary-vintage: y_t, y_p = dask.compute(t, y); then the print reads cuml
Evaluate ==
    /\ At("elementary-vintage")
    /\ IF {"t", "y"} \subseteq bound
       THEN /\ y_t' = t
            /\ y_p' = y
            /\ IF "cuml" \in bound
               THEN Return("elementary-vintage")
               ELSE Raise("elementary-vintage", "NameError", {"dask", "y_t", "y_p"})
       ELSE NameError("elementary-vintage") /\ UNCHANGED <<y_t, y_p>>
    /\ UNCHANGED <<serve, yarn, frames, split, dmatrix_train, dmatrix_test, xgb_clasf,
                   y_predict, t>>


(***************************************************************************)
(* The cells of the serving notebook, triton_inference.ipynb               *)
(***************************************************************************)
PROJECT_ID == "merlin-on-gcp"

REGION == "us-central1"

STAGING_BUCKET == "triton_model_repository"

\* f'gs://{STAGING_BUCKET}/models'
MODEL_ARTIFACTS_REPOSITORY == <<"gs://", STAGING_BUCKET, "/models">>

MODEL_NAME == "simple"

MODEL_VERSION == "v00"

MODEL_DISPLAY_NAME == <<"triton-", MODEL_NAME, "-", MODEL_VERSION>>

ENDPOINT_DISPLAY_NAME == <<"endpoint-", MODEL_NAME, "-", MODEL_VERSION>>

IMAGE_NAME == "triton-deploy"

IMAGE_URI == <<"gcr.io/", PROJECT_ID, "/", IMAGE_NAME>>

traffic_percentage == 100

min_replica_count == 1

max_replica_count == 2

accelerator_count == 1
\* the request with INPUT1 all ones
payloadOfOnes ==
    [id |-> "0",
     inputs |-> <<
        [name |-> "INPUT0", shape |-> <<1, 16>>, datatype |-> "INT32",
         data |-> [i \in 1..16 |-> i - 1]],
        [name |-> "INPUT1", shape |-> <<1, 16>>, datatype |-> "INT32",
         data |-> [i \in 1..16 |-> 1]] >>]

\* the request body of cell 924669cf
payload ==
    [id |-> "0",
     inputs |-> <<
        [name |-> "INPUT0", shape |-> <<1, 16>>, datatype |-> "INT32",
         data |-> [i \in 1..16 |-> i - 1]],
        [name |-> "INPUT1", shape |-> <<1, 16>>, datatype |-> "INT32",
         data |-> [i \in 1..16 |-> -1]] >>]

\* the identifiers the service gives the resources it creates
ResourceIds == {"7001", "7002"}

\* the operation each cell asks the service for
OpCell == [upload |-> "b9e3c2ac", create |-> "d2ef58a0", deploy |-> "cf2bb85f"]
\* model.deploy called with sync=False
SyncButDeploy(op) == op # "deploy"

\* sync=True: Model.upload (given), Endpoint.create (the default), model.deploy (given)
Sync(op) == TRUE

NoResource == ""

\* c2e0cca3: vertex_ai.init(project, location, staging_bucket)
InitSdk ==
    /\ At("c2e0cca3")
    /\ IF NamesBound
       THEN /\ sdk' = [project |-> PROJECT_ID, location |-> REGION,
                       staging_bucket |-> STAGING_BUCKET]
            /\ Return("c2e0cca3")
       ELSE NameError("c2e0cca3") /\ UNCHANGED sdk
    /\ UNCHANGED <<trainVars, ops, model, endpoint, registry, endpoints, files, uri,
                   response, calls>>

\* b9e3c2ac, d2ef58a0, cf2bb85f: the SDK sends the request of a long-running
\* operation; with sync=True the call blocks until the operation ends
Request(op) ==
    /\ At(OpCell[op])
    /\ IF NamesBound
       THEN /\ ops' = [ops EXCEPT ![op] = "running"]
            /\ calls' = Append(calls, <<op, "request">>)
            /\ IF Sync(op) THEN Block(OpCell[op], op) ELSE Return(OpCell[op])
       ELSE NameError(OpCell[op]) /\ UNCHANGED <<ops, calls>>
    /\ UNCHANGED <<trainVars, sdk, model, endpoint, registry, endpoints, files, uri,
                   response>>

UploadModel == Request("upload")

CreateEndpoint == Request("create")

DeployModel == Request("deploy")

\* what an endpoint serves after model.deploy(endpoint=..., traffic_percentage=...,
\* min_replica_count=..., max_replica_count=...)
Deployed(e, m) ==
    [id |-> e, model |-> m, traffic |-> traffic_percentage,
     min_replicas |-> min_replica_count, max_replicas |-> max_replica_count]

EmptyEndpoint(e) ==
    [id |-> e, model |-> NoResource, traffic |-> 0, min_replicas |-> 0, max_replicas |-> 0]

EndpointIds == {e.id : e \in endpoints}

\* the service ends a running operation
ServiceCompletes ==
    \E op \in DOMAIN OpCell :
        /\ ops[op] = "running"
        /\ \/ /\ op = "upload"
              /\ \E id \in ResourceIds \ registry :
                    /\ registry' = registry \cup {id}
                    /\ model' = id
              /\ UNCHANGED <<endpoint, endpoints>>
           \/ /\ op = "create"
              /\ \E id \in ResourceIds \ EndpointIds :
                    /\ endpoints' = endpoints \cup {EmptyEndpoint(id)}
                    /\ endpoint' = id
              /\ UNCHANGED <<model, registry>>
           \/ /\ op = "deploy"
              /\ model \in registry
              /\ endpoint \in EndpointIds
              /\ endpoints' = {IF e.id = endpoint THEN Deployed(endpoint, model) ELSE e :
                                  e \in endpoints}
              /\ UNCHANGED <<model, endpoint, registry>>
        /\ ops' = [ops EXCEPT ![op] = "done"]
        /\ calls' = Append(calls, <<op, "done">>)
        /\ UNCHANGED <<ctrl, trainVars, sdk, files, uri, response>>

\* the service rejects a running operation
ServiceFails ==
    \E op \in DOMAIN OpCell :
        /\ ops[op] = "running"
        /\ ops' = [ops EXCEPT ![op] = "failed"]
        /\ calls' = Append(calls, <<op, "failed">>)
        /\ UNCHANGED <<ctrl, trainVars, sdk, model, endpoint, registry, endpoints,
                       files, uri, response>>

\* the blocked call returns the resource
CallReturns ==
    /\ raised = "none"
    /\ line \in DOMAIN OpCell
    /\ ops[line] = "done"
    /\ Return(OpCell[line])
    /\ UNCHANGED <<trainVars, serve>>

\* the blocked call raises the operation's error
CallRaises ==
    /\ raised = "none"
    /\ line \in DOMAIN OpCell
    /\ ops[line] = "failed"
    /\ Raise(OpCell[line], "GoogleAPICallError", {})
    /\ UNCHANGED <<trainVars, serve>>

\* 924669cf: json.dump(payload, f) into simple.json
WritePayload ==
    /\ At("924669cf")
    /\ IF NamesBound
       THEN /\ files' = files \cup {[name |-> "simple.json", body |-> payload]}
            /\ calls' = Append(calls, <<"json", "written">>)
            /\ Return("924669cf")
       ELSE NameError("924669cf") /\ UNCHANGED <<files, calls>>
    /\ UNCHANGED <<trainVars, sdk, ops, model, endpoint, registry, endpoints, uri,
                   response>>
\* the URI built from the resource name of the model
RawPredictUriOfModel(e) ==
    [host |-> REGION, project |-> PROJECT_ID, location |-> REGION, endpoint |-> model,
     verb |-> "rawPredict"]

\* f'https://{REGION}-aiplatform.googleapis.com/v1/projects/{PROJECT_ID}/locations/
\*   {REGION}/endpoints/{endpoint.name}:rawPredict'
RawPredictUri(e) ==
    [host |-> REGION, project |-> PROJECT_ID, location |-> REGION, endpoint |-> e,
     verb |-> "rawPredict"]

\* the output of cell 6f98d37f recorded in the notebook: what the deployed
\* model `simple` answered to the request of simple.json
RecordedResponse ==
    [id |-> "0", model_name |-> "simple", model_version |-> "1",
     outputs |-> <<
        [name |-> "OUTPUT0", datatype |-> "INT32", shape |-> <<1, 16>>,
         data |-> <<-1, 0, 1, 2, 3, 4, 5, 6, 7, 8, 9, 10, 11, 12, 13, 14>>],
        [name |-> "OUTPUT1", datatype |-> "INT32", shape |-> <<1, 16>>,
         data |-> <<1, 2, 3, 4, 5, 6, 7, 8, 9, 10, 11, 12, 13, 14, 15, 16>>] >>]

\* what the service answers to the request
Answer(u, bodies) ==
    IF bodies = {} THEN [status |-> "no request body", body |-> NoBody]
    ELSE IF \E e \in endpoints : e.id = u.endpoint /\ e.model # NoResource /\ e.traffic > 0
    THEN [status |-> "inference response", body |-> RecordedResponse]
    ELSE [status |-> "error response", body |-> NoBody]

\* 6f98d37f: uri = ...; ! curl -X POST ... {uri} -d @simple.json
Invoke ==
    /\ At("6f98d37f")
    /\ IF NamesBound
       THEN /\ uri' = RawPredictUri(endpoint)
            /\ calls' = Append(calls, <<"rawPredict", "sent">>)
            /\ response' = Answer(uri', {f.body : f \in {g \in files : g.name = "simple.json"}})
            /\ Return("6f98d37f")
       ELSE NameError("6f98d37f") /\ UNCHANGED <<uri, calls, response>>
    /\ UNCHANGED <<trainVars, sdk, ops, model, endpoint, registry, endpoints, files>>

ServeNext ==
    \/ InitSdk
    \/ UploadModel
    \/ CreateEndpoint
    \/ DeployModel
    \/ ServiceCompletes
    \/ ServiceFails
    \/ CallReturns
    \/ CallRaises
    \/ WritePayload
    \/ Invoke

TrainNext ==
    \/ RunPlain
    \/ StartCluster
    \/ WorkerJoins
    \/ ConnectClient
    \/ LoadTable
    \/ HeadReturns
    \/ Repartition
    \/ CleanFilter
    \/ Persist
    \/ Compute
    \/ WaitReturns
    \/ Split
    \/ PersistSplits
    \/ BuildMatrices
    \/ Train
    \/ Predict
    \/ PredictionArray
    \/ TestLabels
    \/ Evaluate

Next == TrainNext \/ ServeNext

vars == <<ctrl, trainVars, serve>>

Spec == Init /\ [][Next]_vars

(***************************************************************************)
(* The order of the steps of the two notebooks                             *)
(***************************************************************************)
TrainSteps == <<"acquire", "load", "clean", "split", "train", "predict", "evaluate">>

ServeSteps == <<"register", "endpoint", "deploy", "invoke">>

\* the position of a step in the list of steps, 0 for a cell of no step
StepNo(steps, s) ==
    IF \E n \in DOMAIN steps : steps[n] = s
    THEN CHOOSE n \in DOMAIN steps : steps[n] = s
    ELSE 0

\* the number of the step of each cell
TrainStepNo ==
    [id \in Range(TrainOrder) |-> StepNo(TrainSteps, CellOf(TrainCells, id).step)]

ServeStepNo ==
    [id \in Range(ServeOrder) |-> StepNo(ServeSteps, CellOf(ServeCells, id).step)]

RECURSIVE Entered(_, _, _)
\* the numbers of the steps of the first n cells of ids, in the order in
\* which the steps were entered: a cell of no step is skipped and a cell of
\* the step already being run does not enter it again
Entered(stepNo, ids, n) ==
    IF n = 0 THEN <<>>
    ELSE LET before == Entered(stepNo, ids, n - 1)
             no == stepNo[ids[n]]
         IN IF no = 0 \/ (before # <<>> /\ before[Len(before)] = no)
            THEN before
            ELSE Append(before, no)

\* the steps were entered in the order of their numbers, none of them twice
InOrder(stepNo, ids) ==
    LET e == Entered(stepNo, ids, Len(ids)) IN \A i \in DOMAIN e : e[i] = i

NoRepeat(ids) == \A i, j \in DOMAIN ids : i # j => ids[i] # ids[j]

\* every cell of the steps before the step of a started cell has finished
EarlierStepsFinished(stepNo) ==
    LET fin == Range(finished)
        nos == {stepNo[started[i]] : i \in DOMAIN started}
    IN \A id \in DOMAIN stepNo :
          (stepNo[id] > 0 /\ \E n \in nos : stepNo[id] < n) => id \in fin

\* all the steps have been entered
AllEntered(stepNo, steps) == Len(Entered(stepNo, started, Len(started))) = Len(steps)

Precedes(earlier, later) ==
    \A i \in DOMAIN calls :
        calls[i] = later => \E j \in 1..(i - 1) : calls[j] = earlier

\* C2: in the serving notebook the steps are entered in the order register,
\* endpoint, deploy, invoke; the deploy request is sent only after the upload
\* and the create operations have completed, and the rawPredict request only
\* after the deploy operation has completed and simple.json has been written.
C2_ServeStepsInOrder ==
    notebook = "serve" =>
        /\ NoRepeat(started)
        /\ InOrder(ServeStepNo, started)
        /\ Precedes(<<"upload", "done">>, <<"deploy", "request">>)
        /\ Precedes(<<"create", "done">>, <<"deploy", "request">>)
        /\ Precedes(<<"deploy", "done">>, <<"rawPredict", "sent">>)
        /\ Precedes(<<"json", "written">>, <<"rawPredict", "sent">>)

\* the rawPredict request has been sent to the endpoint the model is deployed to
C2_Witness ==
    /\ notebook = "serve"
    /\ AllEntered(ServeStepNo, ServeSteps)
    /\ \E i \in DOMAIN calls : calls[i] = <<"rawPredict", "sent">>
    /\ response.status = "inference response"

(***************************************************************************)
(* The frame after clean and after the query                               *)
(***************************************************************************)
\* cell molecular-honolulu has returned
CleanedAndFiltered == notebook = "train" /\ "molecular-honolulu" \in Range(finished)

\* the value of row i of the column
Value(df, name, i) == Col(df, name).data[i]

\* lo < x < hi for a value x of a frame; a missing value is in no range
Inside(x, lo, hi) == x.k = "num" /\ x.hi = 0 /\ lo < x.v /\ x.v < hi

\* the six range predicates on row i
InEveryRange(df, i) ==
    /\ Inside(Value(df, fare_amount, i), 0, 500)
    /\ Inside(Value(df, passenger_count, i), 0, 6)
    /\ Inside(Value(df, pickup_longitude, i), -75, -73)
    /\ Inside(Value(df, dropoff_longitude, i), -75, -73)
    /\ Inside(Value(df, pickup_latitude, i), 40, 42)
    /\ Inside(Value(df, dropoff_latitude, i), 40, 42)

\* the row ids of a frame
Rows(df) == Range(df.index)

\* C3: after the query a row of the cleaned frame is kept if and only if
\* all six range predicates hold with strict bounds (when the casts of clean
\* can be computed at all).
C3_QueryKeepsRowsInRange ==
    (CleanedAndFiltered /\ ~cleaned.fails) =>
        \A i \in DOMAIN cleaned.index :
            cleaned.index[i] \in Rows(taxi_df) <=> InEveryRange(cleaned, i)

\* the row with passenger_count = 6 is dropped and the other rows are kept
C3_Witness ==
    /\ CleanedAndFiltered
    /\ ~cleaned.fails
    /\ \E i \in DOMAIN cleaned.index :
          /\ Value(cleaned, passenger_count, i) = Num(6)
          /\ Rows(taxi_df) = Rows(cleaned) \ {cleaned.index[i]}

(***************************************************************************)
(* The rows the model is trained and tested on                             *)
(***************************************************************************)
\* cell gorgeous-nightlife has returned
Trained == notebook = "train" /\ "gorgeous-nightlife" \in Range(finished)

\* C4: the rows given to xgb.dask.train as training data are 80% of the
\* filtered rows and the rows of dmatrix_test and y_test are the remaining
\* rows, disjoint from the training rows.
C4_TrainAndTestRowsDisjoint ==
    Trained =>
        LET train == Rows(dmatrix_train.data)
            test == Rows(dmatrix_test.data)
        IN /\ xgb_clasf.rows = train
           /\ Cardinality(train) = (8 * Cardinality(Rows(taxi_df))) \div 10
           /\ test = Rows(taxi_df) \ train
           /\ Rows(y_test) = test
           /\ train \cap test = {}

(***************************************************************************)
(* What clean returns                                                      *)
(***************************************************************************)
\* clean(taxi_df, remap, must_haves) has returned in cell molecular-honolulu
CleanReturned ==
    notebook = "train" /\ "molecular-honolulu" \in Range(started) /\ renamed # <<>>

\* the columns of the table clean keeps, by their position in the table
Retained == {j \in DOMAIN renamed : renamed[j] \in DOMAIN must_haves}

\* C5: after clean returns every column of the result has the dtype that
\* must_haves declares for its name, whatever dtype it had on input.
C5_DtypesAsDeclared ==
    CleanReturned =>
        \A c \in DOMAIN cleaned.cols :
            cleaned.cols[c].name \in DOMAIN must_haves
            => cleaned.cols[c].dtype = must_haves[cleaned.cols[c].name]

\* C6: after clean returns no retained numeric column contains a null, and
\* every value that was null on input is -1, for every input dtype.
C6_NullsFilled ==
    CleanReturned =>
        \A j \in Retained :
            renamed[j] \notin {pickup_datetime, dropoff_datetime}
            => \A i \in DOMAIN ddf.index :
                  /\ Value(cleaned, renamed[j], i).k # "null"
                  /\ ddf.cols[j].data[i].k = "null"
                     => Value(cleaned, renamed[j], i) = Num(-1)

vendorid == <<"v", "e", "n", "d", "o", "r", "i", "d">>

\* the labels of the twelve columns of the table after the renames
RenamedSchema == <<
    vendorid, pickup_datetime, dropoff_datetime, passenger_count, trip_distance,
    pickup_longitude, pickup_latitude, rate_code, store_and_fwd_flag,
    dropoff_longitude, dropoff_latitude, fare_amount >>

\* the sequence without its n-th element
Without(s, n) == SubSeq(s, 1, n - 1) \o SubSeq(s, n + 1, Len(s))

\* C7: clean strips and lowercases each label and then replaces the keys of
\* remap (tpep_pickup_datetime, tpep_dropoff_datetime, ratecodeid) by their
\* values, leaving every other label as it is: the labels after the renames
\* are those of RenamedSchema however the labels of the table are cased or
\* padded.
C7_RenamedLabels ==
    CleanReturned =>
        \/ renamed = RenamedSchema
        \/ \E n \in DOMAIN RenamedSchema :
              /\ Len(ddf.cols) = Len(RenamedSchema) - 1
              /\ renamed = Without(RenamedSchema, n)

\* the table had the label "\tRATECODEID  " and clean named the column rate_code
C7_Witness ==
    /\ CleanReturned
    /\ \E j \in DOMAIN ddf.cols :
          /\ ddf.cols[j].name = <<"\t">> \o Upper(RateCodeID) \o <<" ", " ">>
          /\ renamed[j] = rate_code
          /\ HasCol(cleaned, rate_code)

\* C8: the labels of the frame clean returns are keys of must_haves, and
\* every column whose renamed label is a key of must_haves is retained.
C8_OnlyExpectedColumns ==
    CleanReturned =>
        /\ Range(Labels(cleaned)) \subseteq DOMAIN must_haves
        /\ \A j \in Retained : HasCol(cleaned, renamed[j])
        /\ Len(cleaned.cols) = Cardinality(Retained)

\* of the twelve columns of the table the two that are no key are dropped
C8_Witness ==
    /\ CleanReturned
    /\ Len(renamed) = 12
    /\ Len(cleaned.cols) = 10
    /\ ~HasCol(cleaned, vendorid)
    /\ ~HasCol(cleaned, store_and_fwd_flag)

\* C9: no row that had a null on input in any of the eight columns of
\* fields is still in taxi_df after clean and the query.
C9_NoRowWithMissingValue ==
    CleanedAndFiltered =>
        \A j \in DOMAIN renamed :
            renamed[j] \in Range(fields)
            => \A i \in DOMAIN ddf.index :
                  ddf.cols[j].data[i].k = "null" => ddf.index[i] \notin Rows(taxi_df)

\* cell wrong-harmony has returned and y is not yet bound to the prediction
FeaturesBound ==
    /\ notebook = "train"
    /\ "wrong-harmony" \in Range(finished)
    /\ "08389fd3" \notin Range(finished)

\* C10: after taxi_df = taxi_df[fields] the frame has exactly the eight
\* columns of fields, X has exactly the seven columns of fields other than
\* fare_amount and y the fare_amount column only, and the model is trained
\* on these seven features with fare_amount as its label.
C10_OnlyFieldColumns ==
    /\ CleanedAndFiltered =>
          /\ Labels(taxi_df) = fields
          /\ Len(taxi_df.cols) = 8
          /\ ~HasCol(taxi_df, pickup_datetime) /\ ~HasCol(taxi_df, dropoff_datetime)
    /\ FeaturesBound =>
          /\ Range(Labels(X)) = Range(fields) \ {fare_amount}
          /\ Len(X.cols) = 7
          /\ Labels(y) = <<fare_amount>>
    /\ Trained =>
          /\ Range(xgb_clasf.features) = Range(fields) \ {fare_amount}
          /\ Len(xgb_clasf.features) = 7
          /\ xgb_clasf.label = <<fare_amount>>

\* the model has been trained on the seven features
C10_Witness ==
    /\ Trained
    /\ Len(taxi_df.cols) = 8
    /\ Len(dmatrix_train.data.cols) = 7
    /\ fare_amount \notin Range(Labels(dmatrix_train.data))
    /\ Labels(dmatrix_train.label) = <<fare_amount>>

(***************************************************************************)
(* Runs that show how the notebook treats the split, dtypes and nulls      *)
(***************************************************************************)
\* the column of the table that clean names `label`
TableCol(label) == ddf.cols[CHOOSE j \in DOMAIN renamed : renamed[j] = label]

\* the model is trained on every filtered row and tested on the same rows
C4_Witness ==
    /\ Trained
    /\ Cardinality(Rows(taxi_df)) = NGood + 1
    /\ Rows(dmatrix_train.data) = Rows(taxi_df)
    /\ Rows(dmatrix_test.data) = Rows(taxi_df)
    /\ Rows(y_test) = Rows(taxi_df)

\* passenger_count read as float64 is float32 after clean, not int32
C5_Witness ==
    /\ CleanReturned
    /\ HasCol(cleaned, passenger_count)
    /\ TableCol(passenger_count).dtype = "float64"
    /\ \A i \in DOMAIN ddf.index : TableCol(passenger_count).data[i].k = "num"
    /\ Col(cleaned, passenger_count).dtype = "float32"

\* trip_distance read as a string keeps its null after clean
C6_Witness ==
    /\ CleanReturned
    /\ ~cleaned.fails
    /\ HasCol(cleaned, trip_distance)
    /\ TableCol(trip_distance).dtype = "object"
    /\ TableCol(trip_distance).data[NGood + 1] = Null
    /\ Value(cleaned, trip_distance, NGood + 1) = Null

\* the row whose trip_distance was null is in taxi_df with trip_distance -1
C9_Witness ==
    /\ CleanedAndFiltered
    /\ TableCol(trip_distance).dtype = "float64"
    /\ TableCol(trip_distance).data[NGood + 1] = Null
    /\ \E i \in DOMAIN taxi_df.index :
          /\ taxi_df.index[i] = ddf.index[NGood + 1]
          /\ Value(taxi_df, trip_distance, i) = Num(-1)

(***************************************************************************)
(* The loop of clean                                                       *)
(***************************************************************************)
\* cell molecular-honolulu has called clean
CleanCalled == notebook = "train" /\ "molecular-honolulu" \in Range(started)

\* C11: clean returns for every table read, and its loop has run its body
\* for each column of the renamed frame exactly once, in the order of the
\* frame, also when the body drops columns.
C11_EachColumnOnce ==
    CleanCalled =>
        /\ Len(examined) = Len(ddf.cols)
        /\ examined = renamed
        /\ NoRepeat(examined)

\* clean examined the twelve columns of the table and dropped two of them
\* on the way
C11_Witness ==
    /\ CleanReturned
    /\ Len(examined) = 12
    /\ Len(cleaned.cols) = 10
    /\ examined[1] = vendorid
    /\ examined[2] = pickup_datetime

(***************************************************************************)
(* The workers the data is spread over                                     *)
(***************************************************************************)
\* the step in which client.persist hands the graph to the scheduler
PersistStep == notebook = "train" /\ persisted = "no" /\ persisted' = "pending"

\* C12: when the data is persisted, the number of partitions of taxi_df and
\* the workers its partitions are restricted to are the workers connected
\* to the cluster at that moment.
C12_SpreadOverConnectedWorkers ==
    [][PersistStep => (npartitions = joined /\ restricted' = 1..joined)]_vars

\* two of the four workers had joined when has_what() was read: the data is
\* in two partitions restricted to these two, with four workers connected
C12_Witness ==
    /\ notebook = "train"
    /\ persisted = "pending"
    /\ workers = 1..2
    /\ npartitions = 2
    /\ restricted = 1..2
    /\ joined = YarnWorkers

(***************************************************************************)
(* When the graph of taxi_df is computed                                   *)
(***************************************************************************)
\* C13: nothing of the graph of taxi_df is computed before cell
\* wrong-harmony calls client.persist, X and y are derived only when
\* wait(taxi_df) has returned, and when it has returned every partition of
\* taxi_df is computed and in memory.
C13_InMemoryAfterWait ==
    notebook = "train" =>
        /\ "wrong-harmony" \notin Range(started) => persisted = "no"
        /\ (X # NoFrame \/ y # NoFrame) => "wrong-harmony" \in Range(finished)
        /\ "wrong-harmony" \in Range(finished) => persisted = "memory"

\* wait(taxi_df) has returned with the partitions erred, and X and y are bound
C13_Witness ==
    /\ notebook = "train"
    /\ "wrong-harmony" \in Range(finished)
    /\ persisted = "erred"
    /\ taxi_df.fails
    /\ {"X", "y"} \subseteq bound
    /\ raised = "none"

(***************************************************************************)
(* The request sent to the endpoint and its answer                         *)
(***************************************************************************)
\* cell 6f98d37f has sent the request
Sent == notebook = "serve" /\ "6f98d37f" \in Range(finished)

\* C14: the rawPredict URI names the endpoint the model was deployed to and
\* the project and region given to vertex_ai.init, and that endpoint routes
\* 100 percent of its traffic to the uploaded model, on 1 to 2 replicas.
C14_RequestToDeployedEndpoint ==
    Sent =>
        /\ uri.verb = "rawPredict"
        /\ uri.project = sdk.project
        /\ uri.location = sdk.location
        /\ uri.host = sdk.location
        /\ \E e \in endpoints :
              /\ e.id = uri.endpoint
              /\ e.model = model
              /\ e.model \in registry
              /\ e.traffic = 100
              /\ e.min_replicas = 1
              /\ e.max_replicas = 2
              /\ e.min_replicas <= e.max_replicas
        /\ \A e \in endpoints : e.model # NoResource => e.id = uri.endpoint

\* the request went to endpoint 7002, which serves model 7001
C14_Witness ==
    /\ Sent
    /\ uri.endpoint = "7002"
    /\ model = "7001"
    /\ Deployed("7002", "7001") \in endpoints

\* the values of the named tensor of a request or of a response
Tensor(tensors, name) ==
    tensors[CHOOSE n \in DOMAIN tensors : tensors[n].name = name]

\* C15: the response to the sample request carries the request's id, and
\* OUTPUT0 = INPUT0 + INPUT1 and OUTPUT1 = INPUT0 - INPUT1 at each of the 16
\* indices, both outputs INT32 of the shape [1,16] of the inputs.
C15_SumAndDifference ==
    (Sent /\ response.status = "inference response") =>
        LET in0 == Tensor(payload.inputs, "INPUT0")
            in1 == Tensor(payload.inputs, "INPUT1")
            out0 == Tensor(response.body.outputs, "OUTPUT0")
            out1 == Tensor(response.body.outputs, "OUTPUT1")
        IN /\ response.body.id = payload.id
           /\ Len(response.body.outputs) = 2
           /\ \A o \in {out0, out1} :
                 /\ o.datatype = "INT32"
                 /\ o.shape = <<1, 16>>
                 /\ o.shape = in0.shape /\ o.shape = in1.shape
                 /\ DOMAIN o.data = 1..16
           /\ \A i \in 1..16 :
                 /\ out0.data[i] = in0.data[i] + in1.data[i]
                 /\ out1.data[i] = in0.data[i] - in1.data[i]

\* the answer to the request written to simple.json has arrived
C15_Witness ==
    /\ Sent
    /\ [name |-> "simple.json", body |-> payload] \in files
    /\ response.status = "inference response"
    /\ Tensor(response.body.outputs, "OUTPUT0").data[1] = -1
    /\ Tensor(response.body.outputs, "OUTPUT1").data[16] = 16

(***************************************************************************)
(* A cell that raises                                                      *)
(***************************************************************************)
\* the position of the cell in the open notebook
CellNo(id) == CHOOSE i \in DOMAIN Cells : Cells[i].id = id

====
